---- MODULE Spec2Model ----
(***************************************************************************)
(* Crossroads: households, life events and the before/after comparison.    *)
(*                                                                         *)
(* Python objects are mutable and shared by reference, so the operations   *)
(* are modelled over an object memory mem = [P, H]: mem.P is the sequence  *)
(* of Person objects and mem.H the sequence of Household objects, a        *)
(* reference being an index.  A Household object holds the references of   *)
(* its members.  The state variables hold households by value (Deref).     *)
(* Amounts are integers; Optional values are <<>> (None) or <<v>>.         *)
(***************************************************************************)
EXTENDS Integers, Sequences, FiniteSets, TLC

VARIABLES
    household,        \* the household the caller holds, by value
    event,            \* the life event of the current / last call
    input,            \* lifecycle: the input household as observed after apply
    nEvents,          \* lifecycle: number of events applied so far
    origin,           \* how the first household was constructed
    pc,               \* compare: position in the body of compare
    variables,        \* compare: the variables argument (None or a list)
    errors,           \* compare: the list validate returned
    raised,           \* compare: the exception that left compare, or None
    before_situation, \* compare: locals of the same names
    after_household,
    after_situation,
    engine,           \* compare: the behaviour of the external engine
    before_results,
    after_results,
    healthcare_before,
    healthcare_after,
    result,           \* compare: the ComparisonResult returned, or None
    effects,          \* compare: what the call has done so far, in order
    cov,              \* coverage inference: its inputs and its output
    heap,             \* Household objects: the object memory they live in
    calls             \* Household objects: the calls made on them, in order

life_vars == <<household, event, input, nEvents, origin>>
compare_vars == <<pc, variables, errors, raised, before_situation, after_household,
                  after_situation, engine, before_results, after_results,
                  healthcare_before, healthcare_after, result, effects>>
object_vars == <<heap, calls>>
vars == <<life_vars, compare_vars, cov, object_vars>>

----------------------------------------------------------------------------
(* Bounds of the model *)

MaxEvents == 3

MaxCoverageMembers == 2

MaxCalls == 3

MaxObjects == 2

----------------------------------------------------------------------------
(* Generic helpers *)

None == <<>>

Some(v) == <<v>>

Range(s) == {s[i] : i \in DOMAIN s}

RECURSIVE SumSeq(_)
SumSeq(s) == IF s = <<>> THEN 0 ELSE Head(s) + SumSeq(Tail(s))

RECURSIVE Join(_, _)
Join(sep, s) ==
    IF s = <<>> THEN ""
    ELSE IF Len(s) = 1 THEN s[1]
    ELSE s[1] \o sep \o Join(sep, Tail(s))

----------------------------------------------------------------------------
(* household.py: Person *)

Person(age) ==
    [age |-> age,
     employment_income |-> 0,
     self_employment_income |-> 0,
     social_security_retirement |-> 0,
     unemployment_compensation |-> 0,
     is_pregnant |-> FALSE,
     is_tax_unit_head |-> FALSE,
     is_tax_unit_spouse |-> FALSE,
     has_esi |-> FALSE]

YearVal(year, v) == [year |-> year, value |-> v]

\* Person.to_situation_dict: the five amounts always, the two flags only when true
Person_to_situation_dict(p, year) ==
    [age |-> YearVal(year, p.age),
     employment_income |-> YearVal(year, p.employment_income),
     self_employment_income |-> YearVal(year, p.self_employment_income),
     social_security_retirement |-> YearVal(year, p.social_security_retirement),
     unemployment_compensation |-> YearVal(year, p.unemployment_compensation),
     flags |-> (IF p.is_pregnant THEN {"is_pregnant"} ELSE {})
               \cup (IF p.has_esi THEN {"is_enrolled_in_esi"} ELSE {})]

----------------------------------------------------------------------------
(* The object memory *)

Members(mem, href) == mem.H[href].members

MemberAt(mem, href, i) == mem.P[mem.H[href].members[i]]

\* The value of a Household object: its fields with the members dereferenced
Deref(mem, href) ==
    [state |-> mem.H[href].state,
     members |-> [i \in 1..Len(mem.H[href].members) |-> MemberAt(mem, href, i)],
     year |-> mem.H[href].year,
     county |-> mem.H[href].county,
     zip_code |-> mem.H[href].zip_code]

\* A memory holding one household (reference 1) with the value hv
Load(hv) ==
    [P |-> hv.members,
     H |-> <<[state |-> hv.state,
              members |-> [i \in 1..Len(hv.members) |-> i],
              year |-> hv.year,
              county |-> hv.county,
              zip_code |-> hv.zip_code]>>]

\* dict.get(key, default) on a value that is None when the key is missing
Get(opt, default) == IF opt = None THEN default ELSE opt[1]

EmptyMemory == [P |-> <<>>, H |-> <<>>]

NoObjects == heap = EmptyMemory /\ calls = <<>>

----------------------------------------------------------------------------
(* household.py: Household *)

adults(mem, href) == SelectSeq(Members(mem, href), LAMBDA r : mem.P[r].age >= 18)

children(mem, href) == SelectSeq(Members(mem, href), LAMBDA r : mem.P[r].age < 18)

AnyHead(mem, href) ==
    \E i \in DOMAIN Members(mem, href) : MemberAt(mem, href, i).is_tax_unit_head

AnySpouse(mem, href) ==
    \E i \in DOMAIN Members(mem, href) : MemberAt(mem, href, i).is_tax_unit_spouse

assign_tax_unit_roles_last_adult(mem, href) ==
    LET ad == adults(mem, href)
    IN  IF ad # <<>> /\ ~AnyHead(mem, href)
        THEN LET m1 == [mem EXCEPT !.P[ad[1]].is_tax_unit_head = TRUE]
             IN  IF Len(ad) > 1 /\ ~AnySpouse(m1, href)
                 THEN [m1 EXCEPT !.P[ad[Len(ad)]].is_tax_unit_spouse = TRUE]
                 ELSE m1
        ELSE mem

assign_tax_unit_roles(mem, href) ==
    LET ad == adults(mem, href)
    IN  IF ad # <<>> /\ ~AnyHead(mem, href)
        THEN LET m1 == [mem EXCEPT !.P[ad[1]].is_tax_unit_head = TRUE]
             IN  IF Len(ad) > 1 /\ ~AnySpouse(m1, href)
                 THEN [m1 EXCEPT !.P[ad[2]].is_tax_unit_spouse = TRUE]
                 ELSE m1
        ELSE mem

\* Household(...): the dataclass constructor followed by __post_init__.
\* The result is [raised, mem, ref]; raised is None or the exception.
ValueError(msg) == Some([type |-> "ValueError", message |-> msg])

NewHousehold_unchecked(mem, state, members, year, county, zip_code) ==
    LET obj == [state |-> state, members |-> members, year |-> year,
                county |-> county, zip_code |-> zip_code]
        m1 == [mem EXCEPT !.H = Append(@, obj)]
    IN  [raised |-> None, mem |-> assign_tax_unit_roles(m1, Len(m1.H)), ref |-> Len(m1.H)]

NewHousehold(mem, state, members, year, county, zip_code) ==
    LET obj == [state |-> state, members |-> members, year |-> year,
                county |-> county, zip_code |-> zip_code]
        m1 == [mem EXCEPT !.H = Append(@, obj)]
        ref == Len(m1.H)
    IN  IF members = <<>>
        THEN [raised |-> ValueError("Household must have at least one member"),
              mem |-> mem, ref |-> 0]
        ELSE [raised |-> None, mem |-> assign_tax_unit_roles(m1, ref), ref |-> ref]

copy_shallow(mem, href) ==
    LET h == mem.H[href]
    IN  NewHousehold(mem, h.state, h.members, h.year, h.county, h.zip_code)

copy(mem, href) ==
    LET h == mem.H[href]
        n == Len(mem.P)
        m1 == [mem EXCEPT !.P = @ \o [i \in 1..Len(h.members) |-> mem.P[h.members[i]]]]
    IN  NewHousehold(m1, h.state, [i \in 1..Len(h.members) |-> n + i],
                     h.year, h.county, h.zip_code)

KeyError(key) == Some([type |-> "KeyError", message |-> key])

\* Household.from_dict(data): data maps each key to None (key missing) or
\* Some(value); the person dictionaries become new Person objects
from_dict(mem, data) ==
    LET members == Get(data.members, <<>>)
        n == Len(mem.P)
        m1 == [mem EXCEPT !.P = @ \o members]
    IN  IF data.state = None
        THEN [raised |-> KeyError("state"), mem |-> mem, ref |-> 0]
        ELSE NewHousehold(m1, data.state[1], [i \in 1..Len(members) |-> n + i],
                          Get(data.year, 2024), Get(data.county, None),
                          Get(data.zip_code, None))

\* add_member(person): person is a reference
add_member(mem, href, pref) ==
    assign_tax_unit_roles([mem EXCEPT !.H[href].members = Append(@, pref)], href)

person_id(i) == "person_" \o ToString(i)

\* The role written onto each person entry by to_situation: the last member
\* marked head gets is_tax_unit_head, the last member not marked head but
\* marked spouse gets is_tax_unit_spouse, every member marked neither is a
\* dependent.
to_situation(mem, href) ==
    LET ms == Members(mem, href)
        n == Len(ms)
        year == mem.H[href].year
        ids == [i \in 1..n |-> person_id(i - 1)]
        heads == {i \in 1..n : mem.P[ms[i]].is_tax_unit_head}
        spouses == {i \in 1..n : ~mem.P[ms[i]].is_tax_unit_head
                                  /\ mem.P[ms[i]].is_tax_unit_spouse}
        head == IF heads = {} THEN None
                ELSE Some(CHOOSE i \in heads : \A j \in heads : j <= i)
        spouse == IF spouses = {} THEN None
                  ELSE Some(CHOOSE i \in spouses : \A j \in spouses : j <= i)
        roles(i) == (IF head = Some(i) THEN {"is_tax_unit_head"} ELSE {})
                    \cup (IF spouse = Some(i) THEN {"is_tax_unit_spouse"} ELSE {})
                    \cup (IF i \notin heads /\ i \notin spouses
                          THEN {"is_tax_unit_dependent"} ELSE {})
        entry(i) == LET d == Person_to_situation_dict(mem.P[ms[i]], year)
                    IN  [id |-> ids[i], data |-> [d EXCEPT !.flags = @ \cup roles(i)]]
    IN  [people |-> [i \in 1..n |-> entry(i)],
         tax_units |-> [tax_unit |-> [members |-> ids]],
         families |-> [family |-> [members |-> ids]],
         spm_units |-> [spm_unit |-> [members |-> ids]],
         households |-> [household |->
             [members |-> ids,
              state_code |-> YearVal(year, mem.H[href].state),
              county |-> IF mem.H[href].county # None /\ mem.H[href].county # Some("")
                         THEN Some(YearVal(year, mem.H[href].county[1])) ELSE None,
              zip_code |-> IF mem.H[href].zip_code # None /\ mem.H[href].zip_code # Some("")
                           THEN Some(YearVal(year, mem.H[href].zip_code[1])) ELSE None]]]

----------------------------------------------------------------------------
(* events/*.py: validate.  The household is read through (mem, href); a   *)
(* member_index is the 0-based Python index.                               *)

InRange(idx, mem, href) == idx >= 0 /\ idx < Len(Members(mem, href))

InvalidMemberIndex(idx) == <<"Invalid member index: " \o ToString(idx)>>

If(cond, msg) == IF cond THEN <<msg>> ELSE <<>>

NewChild_validate(e, mem, href) ==
    If(adults(mem, href) = <<>>, "Household must have at least one adult to add a child")
    \o If(e.age < 0, "Child age cannot be negative")
    \o If(e.age >= 18, "New child must be under 18")

Marriage_validate(e, mem, href) ==
    If(AnySpouse(mem, href), "Household already has a spouse")
    \o If(e.spouse_age < 18, "Spouse must be 18 or older")
    \o If(e.spouse_employment_income < 0, "Spouse employment income cannot be negative")

Divorce_validate_index(idx, mem, href) ==
    IF idx < 0 \/ idx >= Len(Members(mem, href))
    THEN <<"Invalid child index: " \o ToString(idx)>>
    ELSE IF MemberAt(mem, href, idx + 1).is_tax_unit_head
    THEN <<"Cannot remove the tax unit head">>
    ELSE IF MemberAt(mem, href, idx + 1).is_tax_unit_spouse
    THEN <<"Spouse is already being removed; don't include in children_leave_with_spouse">>
    ELSE <<>>

RECURSIVE Divorce_validate_indices(_, _, _)
Divorce_validate_indices(idxs, mem, href) ==
    IF idxs = <<>> THEN <<>>
    ELSE Divorce_validate_index(Head(idxs), mem, href)
         \o Divorce_validate_indices(Tail(idxs), mem, href)

Divorce_validate(e, mem, href) ==
    If(~AnySpouse(mem, href), "Household has no spouse to divorce")
    \o (IF e.children_leave_with_spouse # None /\ e.children_leave_with_spouse # Some(<<>>)
        THEN Divorce_validate_indices(e.children_leave_with_spouse[1], mem, href)
        ELSE <<>>)

JobChange_validate(e, mem, href) ==
    IF ~InRange(e.member_index, mem, href) THEN InvalidMemberIndex(e.member_index)
    ELSE LET member == MemberAt(mem, href, e.member_index + 1)
         IN  If(member.age < 16, "Member must be at least 16 to have employment income")
             \o If(e.new_employment_income = None /\ e.income_change = None,
                   "Must specify either new_employment_income or income_change")
             \o If(e.new_employment_income # None /\ e.new_employment_income[1] < 0,
                   "New employment income cannot be negative")
             \o If(e.income_change # None
                   /\ member.employment_income + e.income_change[1] < 0,
                   "Resulting employment income cannot be negative")

Unemployment_validate(e, mem, href) ==
    IF ~InRange(e.member_index, mem, href) THEN InvalidMemberIndex(e.member_index)
    ELSE LET member == MemberAt(mem, href, e.member_index + 1)
         IN  If(member.employment_income = 0, "Member has no employment income to lose")
             \o If(e.unemployment_compensation < 0,
                   "Unemployment compensation cannot be negative")

Retirement_validate(e, mem, href) ==
    IF ~InRange(e.member_index, mem, href) THEN InvalidMemberIndex(e.member_index)
    ELSE LET member == MemberAt(mem, href, e.member_index + 1)
         IN  If(member.age < 62,
                "Member must be at least 62 to claim Social Security retirement")
             \o If(e.social_security_amount < 0, "Social Security amount cannot be negative")
             \o If(e.keep_partial_employment /\ e.partial_employment_income < 0,
                   "Partial employment income cannot be negative")

Pregnancy_validate(e, mem, href) ==
    IF ~InRange(e.member_index, mem, href) THEN InvalidMemberIndex(e.member_index)
    ELSE If(MemberAt(mem, href, e.member_index + 1).is_pregnant, "Member is already pregnant")

MedicareTransition_validate(e, mem, href) ==
    IF ~InRange(e.member_index, mem, href) THEN InvalidMemberIndex(e.member_index)
    ELSE If(MemberAt(mem, href, e.member_index + 1).age >= 65, "Member is already 65 or older")

ChildAgingOut_validate(e, mem, href) ==
    IF ~InRange(e.member_index, mem, href) THEN InvalidMemberIndex(e.member_index)
    ELSE LET member == MemberAt(mem, href, e.member_index + 1)
             threshold == e.aging_out_type
         IN  If(member.age >= threshold,
                "Member is already " \o ToString(threshold) \o " or older")
             \o If(member.is_tax_unit_head \/ member.is_tax_unit_spouse,
                   "Cannot apply child aging out to head or spouse")

VALID_STATE_CODES ==
    {"AL", "AK", "AZ", "AR", "CA", "CO", "CT", "DE", "FL", "GA",
     "HI", "ID", "IL", "IN", "IA", "KS", "KY", "LA", "ME", "MD",
     "MA", "MI", "MN", "MS", "MO", "MT", "NE", "NV", "NH", "NJ",
     "NM", "NY", "NC", "ND", "OH", "OK", "OR", "PA", "RI", "SC",
     "SD", "TN", "TX", "UT", "VT", "VA", "WA", "WV", "WI", "WY",
     "DC"}

Move_validate(e, mem, href) ==
    If(e.new_state \notin VALID_STATE_CODES, "Invalid state code: " \o e.new_state)
    \o If(e.new_state = mem.H[href].state, "New state is the same as current state")

LosingESI_validate(e, mem, href) ==
    IF e.who = "spouse"
    THEN If(~AnySpouse(mem, href), "Cannot lose spouse ESI without a spouse in the household")
    ELSE <<>>

validate(e, mem, href) ==
    CASE e.type = "NewChild" -> NewChild_validate(e, mem, href)
      [] e.type = "Marriage" -> Marriage_validate(e, mem, href)
      [] e.type = "Divorce" -> Divorce_validate(e, mem, href)
      [] e.type = "JobChange" -> JobChange_validate(e, mem, href)
      [] e.type = "Unemployment" -> Unemployment_validate(e, mem, href)
      [] e.type = "Retirement" -> Retirement_validate(e, mem, href)
      [] e.type = "Pregnancy" -> Pregnancy_validate(e, mem, href)
      [] e.type = "MedicareTransition" -> MedicareTransition_validate(e, mem, href)
      [] e.type = "ChildAgingOut" -> ChildAgingOut_validate(e, mem, href)
      [] e.type = "Move" -> Move_validate(e, mem, href)
      [] e.type = "LosingESI" -> LosingESI_validate(e, mem, href)

event_name(e) ==
    CASE e.type = "NewChild" -> "New Child"
      [] e.type = "Marriage" -> "Marriage"
      [] e.type = "Divorce" -> "Divorce"
      [] e.type = "JobChange" -> "Job Change"
      [] e.type = "Unemployment" -> "Unemployment"
      [] e.type = "Retirement" -> "Retirement"
      [] e.type = "Pregnancy" -> "Pregnancy"
      [] e.type = "MedicareTransition" -> "Medicare Transition"
      [] e.type = "ChildAgingOut" -> "Child Aging Out"
      [] e.type = "Move" -> "Move"
      [] e.type = "LosingESI" -> "Losing Health Insurance"

----------------------------------------------------------------------------
(* events/*.py: apply.  The result is [raised, mem, ref]: the exception    *)
(* that left apply (None if it returned), the memory after the call and    *)
(* the reference of the household returned.                                *)

SetMember(mem, href, idx, field, v) ==
    [mem EXCEPT !.P[mem.H[href].members[idx + 1]][field] = v]

RECURSIVE add_members(_, _, _)
add_members(mem, href, prefs) ==
    IF prefs = <<>> THEN mem
    ELSE add_members(add_member(mem, href, Head(prefs)), href, Tail(prefs))

NewChild_apply(e, mem, href) ==
    LET c == copy(mem, href)
    IN  IF c.raised # None THEN c
        ELSE LET m1 == [c.mem EXCEPT !.P = Append(@, Person(e.age))]
             IN  [c EXCEPT !.mem = add_member(m1, c.ref, Len(m1.P))]

\* The Person objects of spouse_children belong to the event: they exist
\* before the call (m0) and are appended to the new household as they are.
Marriage_apply(e, mem, href) ==
    LET m0 == [mem EXCEPT !.P = @ \o e.spouse_children]
        kids == [i \in 1..Len(e.spouse_children) |-> Len(mem.P) + i]
        c == copy(m0, href)
    IN  IF c.raised # None THEN c
        ELSE LET spouse == [Person(e.spouse_age) EXCEPT
                               !.employment_income = e.spouse_employment_income,
                               !.self_employment_income = e.spouse_self_employment_income,
                               !.is_tax_unit_spouse = TRUE]
                 m1 == [c.mem EXCEPT !.P = Append(@, spouse)]
                 m2 == add_member(m1, c.ref, Len(m1.P))
             IN  [c EXCEPT !.mem = add_members(m2, c.ref, kids)]

\* list.pop(idx) for 0 <= idx < len
pop(ms, idx) == SubSeq(ms, 1, idx) \o SubSeq(ms, idx + 2, Len(ms))

Max(S) == CHOOSE x \in S : \A y \in S : y <= x

\* for idx in sorted(indices_to_remove, reverse=True): members.pop(idx)
RECURSIVE pop_descending(_, _)
pop_descending(ms, S) ==
    IF S = {} THEN ms
    ELSE pop_descending(pop(ms, Max(S)), S \ {Max(S)})

IndexError == Some([type |-> "IndexError", message |-> "pop index out of range"])

Divorce_apply(e, mem, href) ==
    LET c == copy(mem, href)
    IN  IF c.raised # None THEN c
        ELSE LET ms == Members(c.mem, c.ref)
                 sp == {i \in 1..Len(ms) : c.mem.P[ms[i]].is_tax_unit_spouse}
                 spouse_idx == IF sp = {} THEN {}
                               ELSE {(CHOOSE i \in sp : \A j \in sp : i <= j) - 1}
                 leaving == IF e.children_leave_with_spouse # None
                            THEN Range(e.children_leave_with_spouse[1]) ELSE {}
                 indices_to_remove == spouse_idx \cup leaving
             IN  IF \E idx \in indices_to_remove : idx < 0 \/ idx >= Len(ms)
                 THEN [c EXCEPT !.raised = IndexError]
                 ELSE [c EXCEPT !.mem.H[c.ref].members =
                                    pop_descending(ms, indices_to_remove)]

JobChange_apply(e, mem, href) ==
    LET c == copy(mem, href)
    IN  IF c.raised # None THEN c
        ELSE IF e.new_employment_income # None
        THEN [c EXCEPT !.mem = SetMember(c.mem, c.ref, e.member_index,
                                  "employment_income", e.new_employment_income[1])]
        ELSE IF e.income_change # None
        THEN [c EXCEPT !.mem = SetMember(c.mem, c.ref, e.member_index,
                 "employment_income",
                 MemberAt(c.mem, c.ref, e.member_index + 1).employment_income
                     + e.income_change[1])]
        ELSE c

Unemployment_apply(e, mem, href) ==
    LET c == copy(mem, href)
    IN  IF c.raised # None THEN c
        ELSE LET m1 == SetMember(c.mem, c.ref, e.member_index, "employment_income", 0)
             IN  [c EXCEPT !.mem = SetMember(m1, c.ref, e.member_index,
                      "unemployment_compensation", e.unemployment_compensation)]

Retirement_apply(e, mem, href) ==
    LET c == copy(mem, href)
    IN  IF c.raised # None THEN c
        ELSE LET m1 == SetMember(c.mem, c.ref, e.member_index, "employment_income",
                           IF e.keep_partial_employment
                           THEN e.partial_employment_income ELSE 0)
             IN  [c EXCEPT !.mem = SetMember(m1, c.ref, e.member_index,
                      "social_security_retirement", e.social_security_amount)]

Pregnancy_apply(e, mem, href) ==
    LET c == copy(mem, href)
    IN  IF c.raised # None THEN c
        ELSE [c EXCEPT !.mem = SetMember(c.mem, c.ref, e.member_index, "is_pregnant", TRUE)]

MedicareTransition_apply(e, mem, href) ==
    LET c == copy(mem, href)
    IN  IF c.raised # None THEN c
        ELSE [c EXCEPT !.mem = SetMember(c.mem, c.ref, e.member_index, "age", 65)]

ChildAgingOut_apply(e, mem, href) ==
    LET c == copy(mem, href)
    IN  IF c.raised # None THEN c
        ELSE [c EXCEPT !.mem = SetMember(c.mem, c.ref, e.member_index, "age",
                                         e.aging_out_type)]

Move_apply(e, mem, href) ==
    LET c == copy(mem, href)
    IN  IF c.raised # None THEN c
        ELSE [c EXCEPT !.mem.H[c.ref].state = e.new_state]

LosingESI_apply(e, mem, href) == copy(mem, href)

apply(e, mem, href) ==
    CASE e.type = "NewChild" -> NewChild_apply(e, mem, href)
      [] e.type = "Marriage" -> Marriage_apply(e, mem, href)
      [] e.type = "Divorce" -> Divorce_apply(e, mem, href)
      [] e.type = "JobChange" -> JobChange_apply(e, mem, href)
      [] e.type = "Unemployment" -> Unemployment_apply(e, mem, href)
      [] e.type = "Retirement" -> Retirement_apply(e, mem, href)
      [] e.type = "Pregnancy" -> Pregnancy_apply(e, mem, href)
      [] e.type = "MedicareTransition" -> MedicareTransition_apply(e, mem, href)
      [] e.type = "ChildAgingOut" -> ChildAgingOut_apply(e, mem, href)
      [] e.type = "Move" -> Move_apply(e, mem, href)
      [] e.type = "LosingESI" -> LosingESI_apply(e, mem, href)

----------------------------------------------------------------------------
(* api.py: the household construction boundary *)

create_household_from_request(data) ==
    LET age == Get(data.age, 30)
        head == [Person(age) EXCEPT !.employment_income = Get(data.income, 0),
                                    !.is_tax_unit_head = TRUE]
        filing_status == Get(data.filingStatus, "single")
        spouse == [Person(Get(data.spouseAge, age)) EXCEPT
                       !.employment_income = Get(data.spouseIncome, 0),
                       !.is_tax_unit_spouse = TRUE]
        child_ages == Get(data.childAges, <<>>)
        members == <<head>>
                   \o (IF filing_status \in {"married_jointly", "married_separately"}
                       THEN <<spouse>> ELSE <<>>)
                   \o [i \in 1..Len(child_ages) |-> Person(child_ages[i])]
    IN  NewHousehold([P |-> members, H |-> <<>>], Get(data.state, "CA"),
                     [i \in 1..Len(members) |-> i], Get(data.year, 2024), None, None)

----------------------------------------------------------------------------
(* Inputs: the households the callers construct and the events they pass *)

Earner(age, income) == [Person(age) EXCEPT !.employment_income = income]

PlainPersons ==
    {Person(10), Person(17), Earner(30, 100),
     [Earner(63, 100) EXCEPT !.has_esi = TRUE]}

\* Household(state, members, ...) called with these members
Construct(state, members, county, zip_code) ==
    NewHousehold([P |-> members, H |-> <<>>], state,
                 [i \in 1..Len(members) |-> i], 2024, county, zip_code)

PlainMemberLists ==
    {<<p>> : p \in PlainPersons}
    \cup {<<Earner(30, 100), Earner(30, 100)>>, <<Earner(30, 100), Person(10)>>,
          <<Person(10), Earner(30, 100)>>, <<Person(17), Person(17)>>,
          <<[Earner(63, 100) EXCEPT !.has_esi = TRUE], Earner(30, 100), Person(17)>>}

PlainHouseholds ==
    {Deref(r.mem, r.ref) : r \in
        {Construct("CA", ms, None, None) : ms \in PlainMemberLists}
        \cup {Construct("TX", <<Earner(30, 100), Person(10)>>,
                        Some("Travis County"), Some("78701"))}}

Request(age, income, filingStatus, spouseAge, childAges) ==
    [age |-> age, income |-> income, filingStatus |-> filingStatus,
     spouseAge |-> spouseAge, spouseIncome |-> None, childAges |-> childAges,
     state |-> None, year |-> None]

RequestData ==
    {Request(None, None, None, None, None),
     Request(Some(17), Some(100), Some("single"), None, Some(<<10>>)),
     Request(None, Some(100), Some("married_jointly"), None, None),
     Request(Some(63), None, Some("married_separately"), Some(30), Some(<<17>>)),
     Request(None, Some(100), Some("head_of_household"), None, Some(<<10, 30>>))}

RequestHouseholds ==
    {Deref(r.mem, r.ref) : r \in {create_household_from_request(d) : d \in RequestData}}

\* Households constructed with role flags set by the caller
FlaggedMemberLists ==
    {<<[Earner(30, 100) EXCEPT !.is_tax_unit_head = TRUE], Person(30)>>,
     <<[Earner(30, 100) EXCEPT !.is_tax_unit_spouse = TRUE]>>,
     <<[Earner(30, 100) EXCEPT !.is_tax_unit_head = TRUE],
       [Person(30) EXCEPT !.is_tax_unit_spouse = TRUE], Person(10)>>,
     <<[Person(30) EXCEPT !.is_tax_unit_head = TRUE, !.is_tax_unit_spouse = TRUE],
       Person(30), [Person(30) EXCEPT !.is_tax_unit_spouse = TRUE]>>}

FlaggedHouseholds ==
    {Deref(r.mem, r.ref) : r \in {Construct("CA", ms, None, None) : ms \in FlaggedMemberLists}}

Indices(hv) == -1..Len(hv.members)

NewChildEvents == {[type |-> "NewChild", age |-> a] : a \in {-1, 0, 18}}

MarriageEvents ==
    {[type |-> "Marriage", spouse_age |-> a, spouse_employment_income |-> inc,
      spouse_self_employment_income |-> 0, spouse_children |-> kids] :
        a \in {17, 30}, inc \in {-5, 100},
        kids \in {<<>>, <<Person(10)>>, <<Person(30), Person(30)>>}}
    \cup {[type |-> "Marriage", spouse_age |-> 30, spouse_employment_income |-> 100,
           spouse_self_employment_income |-> -5, spouse_children |-> <<>>]}

DivorceEvents(hv) ==
    {[type |-> "Divorce", children_leave_with_spouse |-> c] :
        c \in {None, Some(<<>>)} \cup {Some(<<i>>) : i \in Indices(hv)}
              \cup {Some(<<0, 2>>)}}

JobChangeEvents(hv) ==
    {[type |-> "JobChange", member_index |-> i, new_employment_income |-> n,
      income_change |-> d] :
        i \in Indices(hv), n \in {None, Some(-5), Some(100)},
        d \in {None, Some(-100)}}

UnemploymentEvents(hv) ==
    {[type |-> "Unemployment", member_index |-> i, unemployment_compensation |-> u,
      severance_pay |-> None] : i \in Indices(hv), u \in {-5, 20}}

RetirementEvents(hv) ==
    {[type |-> "Retirement", member_index |-> i, social_security_amount |-> a,
      keep_partial_employment |-> k, partial_employment_income |-> p] :
        i \in Indices(hv), a \in {-5, 30}, k \in BOOLEAN, p \in {-5, 10}}

PregnancyEvents(hv) == {[type |-> "Pregnancy", member_index |-> i] : i \in Indices(hv)}

MedicareTransitionEvents(hv) ==
    {[type |-> "MedicareTransition", member_index |-> i] : i \in Indices(hv)}

\* AgingOutType: DEPENDENT_18, DEPENDENT_19, HEALTH_INSURANCE_26
AgingOutType == {18, 19, 26}

ChildAgingOutEvents(hv) ==
    {[type |-> "ChildAgingOut", member_index |-> i, aging_out_type |-> t] :
        i \in Indices(hv), t \in AgingOutType}

MoveEvents == {[type |-> "Move", new_state |-> s] : s \in {"CA", "TX", "ZZ"}}

\* ESILossType: HEAD, SPOUSE, BOTH
ESILossType == {"head", "spouse", "both"}

LosingESIEvents == {[type |-> "LosingESI", who |-> w] : w \in ESILossType}

NoEvent == [type |-> "none"]

----------------------------------------------------------------------------
(* The lifecycle: a caller holds a household and replaces it by the result *)
(* of a life event that passed validate, h = e.apply(h).                   *)

Occur(e) ==
    /\ pc = "life"
    /\ nEvents < MaxEvents
    /\ raised = None
    /\ validate(e, Load(household), 1) = <<>>
    /\ \E r \in {apply(e, Load(household), 1)} :
          /\ household' = IF r.raised = None THEN Deref(r.mem, r.ref) ELSE household
          /\ input' = Deref(r.mem, 1)
          /\ raised' = r.raised
    /\ event' = e
    /\ nEvents' = nEvents + 1
    /\ UNCHANGED <<origin, pc, variables, errors, before_situation, after_household,
                   after_situation, engine, before_results, after_results,
                   healthcare_before, healthcare_after, result, effects, cov, object_vars>>

NewChildOccurs == \E e \in NewChildEvents : Occur(e)

MarriageOccurs == \E e \in MarriageEvents : Occur(e)

DivorceOccurs == \E e \in DivorceEvents(household) : Occur(e)

JobChangeOccurs == \E e \in JobChangeEvents(household) : Occur(e)

UnemploymentOccurs == \E e \in UnemploymentEvents(household) : Occur(e)

RetirementOccurs == \E e \in RetirementEvents(household) : Occur(e)

PregnancyOccurs == \E e \in PregnancyEvents(household) : Occur(e)

MedicareTransitionOccurs == \E e \in MedicareTransitionEvents(household) : Occur(e)

ChildAgingOutOccurs == \E e \in ChildAgingOutEvents(household) : Occur(e)

MoveOccurs == \E e \in MoveEvents : Occur(e)

LosingESIOccurs == \E e \in LosingESIEvents : Occur(e)

IdleCompare ==
    /\ variables = None /\ errors = <<>> /\ raised = None
    /\ before_situation = None /\ after_household = None /\ after_situation = None
    /\ engine = None /\ before_results = None /\ after_results = None
    /\ healthcare_before = None /\ healthcare_after = None /\ result = None
    /\ effects = <<>>

LifeInit ==
    /\ \E o \in {"plain", "request", "flagged"} :
          /\ origin = o
          /\ household \in (CASE o = "plain" -> PlainHouseholds
                              [] o = "request" -> RequestHouseholds
                              [] o = "flagged" -> FlaggedHouseholds)
    /\ input = household
    /\ event = NoEvent
    /\ nEvents = 0
    /\ pc = "life"
    /\ IdleCompare
    /\ cov = None
    /\ NoObjects

LifeNext ==
    \/ NewChildOccurs
    \/ MarriageOccurs
    \/ DivorceOccurs
    \/ JobChangeOccurs
    \/ UnemploymentOccurs
    \/ RetirementOccurs
    \/ PregnancyOccurs
    \/ MedicareTransitionOccurs
    \/ ChildAgingOutOccurs
    \/ MoveOccurs
    \/ LosingESIOccurs

SpecLife == LifeInit /\ [][LifeNext]_vars

----------------------------------------------------------------------------
(* compare.py: the tracked variables *)

OUTPUT_VARIABLES ==
    <<"household_net_income", "employment_income", "self_employment_income",
      "income_tax", "employee_payroll_tax", "self_employment_tax",
      "state_income_tax", "snap", "free_school_meals",
      "reduced_price_school_meals", "school_meal_subsidy", "wic", "tanf", "ssi",
      "social_security", "spm_unit_capped_housing_subsidy", "medicaid", "chip",
      "liheap", "lifeline", "acp", "ccdf", "earned_income_tax_credit", "ctc",
      "non_refundable_ctc", "refundable_ctc", "cdcc", "premium_tax_credit",
      "savers_credit", "american_opportunity_credit", "lifetime_learning_credit",
      "state_eitc", "state_ctc", "ca_eitc", "ca_yctc", "ca_renter_credit",
      "ca_tanf", "ca_state_supplement", "ny_eitc", "ny_ctc", "ny_tanf", "co_eitc",
      "co_ctc", "co_tanf", "co_state_supplement", "co_ccap_subsidy",
      "co_family_affordability_credit", "md_eitc", "md_ctc", "nj_eitc", "nj_ctc",
      "il_eitc", "il_ctc", "dc_eitc", "dc_ctc", "dc_tanf",
      "dc_snap_temporary_local_benefit", "or_eitc", "or_ctc", "nm_eitc", "nm_ctc",
      "ma_eitc", "ma_child_and_family_credit", "wa_working_families_tax_credit",
      "ct_child_tax_rebate", "ct_property_tax_credit",
      "mn_child_and_working_families_credits", "vt_eitc", "vt_ctc", "me_eitc",
      "ri_eitc", "oh_eitc", "ne_eitc", "sc_eitc", "ok_eitc", "hi_eitc", "ut_eitc",
      "ut_ctc">>

----------------------------------------------------------------------------
(* The external engine (policyengine_us.Simulation), a black box.  An      *)
(* engine behaviour says where building an instance raises, which          *)
(* variables raise in calculate, which come back as a scalar instead of an *)
(* array, and which health programmes pay; override gives the answer of a  *)
(* variable outright.  The amounts themselves are a fixed function of the  *)
(* situation, different for different situations and variables.            *)

Raise == [kind |-> "raise"]

Scalar(v) == [kind |-> "scalar", value |-> v]

Array(vs) == [kind |-> "array", values |-> vs]

VarCode(var) ==
    IF var \in Range(OUTPUT_VARIABLES)
    THEN CHOOSE i \in DOMAIN OUTPUT_VARIABLES : OUTPUT_VARIABLES[i] = var
    ELSE Len(OUTPUT_VARIABLES) + 1

SituationTotal(situation) ==
    SumSeq([i \in DOMAIN situation.people |->
               situation.people[i].data.employment_income.value
               + situation.people[i].data.social_security_retirement.value
               + situation.people[i].data.unemployment_compensation.value
               + situation.people[i].data.age.value])

EngineValues(eng, situation, var) ==
    LET people == situation.people
        kid(i) == people[i].data.age.value < 19
    IN  CASE var = "employment_income" ->
                [i \in DOMAIN people |-> people[i].data.employment_income.value]
          [] var = "self_employment_income" ->
                [i \in DOMAIN people |-> people[i].data.self_employment_income.value]
          [] var = "medicaid" ->
                [i \in DOMAIN people |->
                    IF eng.program = "all" \/ (eng.program = "medicaid_children" /\ kid(i))
                    THEN 50 ELSE 0]
          [] var = "chip" ->
                [i \in DOMAIN people |->
                    IF eng.program = "all" \/ (eng.program = "chip_children" /\ kid(i))
                    THEN 40 ELSE 0]
          [] var = "premium_tax_credit" ->
                <<IF eng.program \in {"all", "ptc"} THEN 30 ELSE 0>>
          [] OTHER -> <<VarCode(var) + SituationTotal(situation)>>

\* Simulation(situation=situation): [raised, sim]
EngineError == Some([type |-> "EngineError", message |-> "engine failure"])

Simulation(eng, tag, situation) ==
    IF tag \in eng.build
    THEN [raised |-> EngineError, sim |-> None]
    ELSE [raised |-> None,
          sim |-> Some([engine |-> eng, tag |-> tag, situation |-> situation])]

\* sim.calculate(var, year)
calculate(sim, var, year) ==
    IF var \in DOMAIN sim.engine.override THEN sim.engine.override[var]
    ELSE IF var \in sim.engine.fails[sim.tag] THEN Raise
    ELSE IF var \in sim.engine.scalars
    THEN Scalar(SumSeq(EngineValues(sim.engine, sim.situation, var)))
    ELSE Array(EngineValues(sim.engine, sim.situation, var))

NoOverride == <<>>

Engine(build, fails_before, fails_after, scalars, program) ==
    [build |-> build, fails |-> [before |-> fails_before, after |-> fails_after],
     scalars |-> scalars, program |-> program, override |-> NoOverride]

Engines ==
    {Engine({}, {}, {}, {}, "none"),
     Engine({"before"}, {}, {}, {}, "none"),
     Engine({"after"}, {}, {}, {}, "all"),
     Engine({}, {"snap", "medicaid"}, {"income_tax", "chip", "premium_tax_credit"},
            {}, "all"),
     Engine({}, Range(OUTPUT_VARIABLES), {}, {"household_net_income", "premium_tax_credit"},
            "medicaid_children"),
     Engine({}, {}, {}, {"medicaid"}, "ptc")}

----------------------------------------------------------------------------
(* compare.py: _run_simulation, coverage inference *)

\* A dict is the sequence of its items in insertion order
dict_has(d, k) == \E i \in DOMAIN d : d[i].key = k

dict_get(d, k, default) ==
    IF dict_has(d, k) THEN d[CHOOSE i \in DOMAIN d : d[i].key = k].value ELSE default

dict_keys(d) == [i \in DOMAIN d |-> d[i].key]

simulated_value_first_element(sim, var, year) ==
    LET value == calculate(sim, var, year)
    IN  CASE value.kind = "raise" -> 0
          [] value.kind = "array" -> IF value.values = <<>> THEN 0 ELSE value.values[1]
          [] value.kind = "scalar" -> value.value

\* The body of the loop of _run_simulation for one variable
simulated_value(sim, var, year) ==
    LET value == calculate(sim, var, year)
    IN  CASE value.kind = "raise" -> 0
          [] value.kind = "array" -> SumSeq(value.values)
          [] value.kind = "scalar" -> value.value

\* The dict a loop "for k in keys: d[k] = f(k)" leaves: the keys in the order
\* of their first assignment, each with the value of its last assignment
dict_from_items(items) ==
    LET firsts == SelectSeq([i \in DOMAIN items |-> i],
                      LAMBDA i : \A j \in 1..(i - 1) : items[j].key # items[i].key)
        last(k) == items[Max({j \in DOMAIN items : items[j].key = k})]
    IN  [n \in DOMAIN firsts |-> last(items[firsts[n]].key)]

run_simulation_loop(sim, year) ==
    dict_from_items([i \in DOMAIN OUTPUT_VARIABLES |->
        [key |-> OUTPUT_VARIABLES[i],
         value |-> simulated_value(sim, OUTPUT_VARIABLES[i], year)]])

\* _run_simulation(situation, year): [raised, results, sim]
run_simulation(eng, tag, situation, year) ==
    LET s == Simulation(eng, tag, situation)
    IN  IF s.raised # None
        THEN [raised |-> s.raised, results |-> <<>>, sim |-> None]
        ELSE [raised |-> None,
              results |-> run_simulation_loop(s.sim[1], year),
              sim |-> s.sim]

get_person_label(index, mem, href) ==
    IF index >= Len(Members(mem, href)) THEN "Person " \o ToString(index + 1)
    ELSE LET member == MemberAt(mem, href, index + 1)
             child_num == Cardinality({i \in 1..(index + 1) :
                              ~MemberAt(mem, href, i).is_tax_unit_head
                              /\ ~MemberAt(mem, href, i).is_tax_unit_spouse})
         IN  IF member.is_tax_unit_head THEN "You"
             ELSE IF member.is_tax_unit_spouse THEN "Spouse"
             ELSE "Child " \o ToString(child_num)

PersonHealthcare(person_index, label, esi, medicaid, chip, marketplace) ==
    [person_index |-> person_index, label |-> label, medicaid |-> medicaid,
     chip |-> chip, marketplace |-> marketplace, esi |-> esi]

coverage_type_chip_first(p) ==
    IF p.esi THEN Some("ESI")
    ELSE IF p.chip THEN Some("CHIP")
    ELSE IF p.medicaid THEN Some("Medicaid")
    ELSE IF p.marketplace THEN Some("Marketplace")
    ELSE None

coverage_type(p) ==
    IF p.esi THEN Some("ESI")
    ELSE IF p.medicaid THEN Some("Medicaid")
    ELSE IF p.chip THEN Some("CHIP")
    ELSE IF p.marketplace THEN Some("Marketplace")
    ELSE None

\* get_coverage_summary: coverage type -> labels, the empty lists dropped
get_coverage_summary(hc) ==
    LET listed(k) == SelectSeq(hc.people, LAMBDA p :
                        CASE k = "ESI" -> p.esi
                          [] k = "Medicaid" -> ~p.esi /\ p.medicaid
                          [] k = "CHIP" -> ~p.esi /\ ~p.medicaid /\ p.chip
                          [] k = "Marketplace" ->
                                ~p.esi /\ ~p.medicaid /\ ~p.chip /\ p.marketplace)
        labels(k) == [i \in DOMAIN listed(k) |-> listed(k)[i].label]
    IN  [k \in {c \in {"ESI", "Medicaid", "CHIP", "Marketplace"} : labels(c) # <<>>}
            |-> labels(k)]

TypeError == Some([type |-> "TypeError", message |-> "object has no len()"])

\* The body of the per-person loop of _extract_healthcare_coverage
person_coverage(i, member, label, medicaid_amount, chip_amount, has_ptc) ==
    LET has_esi == member.has_esi
        on_medicaid == medicaid_amount > 0 /\ ~has_esi
        on_chip == chip_amount > 0 /\ ~has_esi
        on_marketplace == has_ptc /\ ~has_esi /\ ~on_medicaid /\ ~on_chip
    IN  PersonHealthcare(i, label, has_esi, on_medicaid, on_chip, on_marketplace)

\* _extract_healthcare_coverage(sim, household, year): [raised, value]
extract_healthcare_coverage(sim, mem, href, year) ==
    LET num_people == Len(Members(mem, href))
        zeros == Array([i \in 1..num_people |-> 0])
        m == calculate(sim, "medicaid", year)
        medicaid_values == IF m.kind = "raise" THEN zeros ELSE m
        c == calculate(sim, "chip", year)
        chip_values == IF c.kind = "raise" THEN zeros ELSE c
        p == calculate(sim, "premium_tax_credit", year)
        ptc_value == IF p.kind = "array" THEN SumSeq(p.values) ELSE 0
        has_ptc == ptc_value > 0
        amount(values, i) == IF i < Len(values.values) THEN values.values[i + 1] ELSE 0
    IN  IF num_people > 0 /\ (medicaid_values.kind = "scalar" \/ chip_values.kind = "scalar")
        THEN [raised |-> TypeError, value |-> None]
        ELSE [raised |-> None,
              value |-> Some(
                 [people |-> [k \in 1..num_people |->
                      person_coverage(k - 1, MemberAt(mem, href, k),
                          get_person_label(k - 1, mem, href),
                          amount(medicaid_values, k - 1), amount(chip_values, k - 1),
                          has_ptc)],
                  has_ptc |-> has_ptc])]

----------------------------------------------------------------------------
(* compare.py: compare(household, event, variables), step by step.  A step *)
(* that raises ends the call at pc = "raised" with the exception in raised. *)

BenefitChange(name, before, after) == [name |-> name, before |-> before, after |-> after]

\* BenefitChange.change
change(bc) == bc.after - bc.before

percent_change_when_after_zero(bc) ==
    IF bc.after = 0 THEN None
    ELSE Some([num |-> (bc.after - bc.before) * 100, den |-> bc.before])

\* BenefitChange.percent_change: None, or the ratio as numerator and denominator
percent_change(bc) ==
    IF bc.before = 0 THEN None
    ELSE Some([num |-> (bc.after - bc.before) * 100, den |-> bc.before])

\* changes.get(name, BenefitChange("", 0, 0))
changes_get(res, name) == dict_get(res.changes, name, BenefitChange("", 0, 0))

net_income_before(res) == changes_get(res, "household_net_income").before

net_income_after(res) == changes_get(res, "household_net_income").after

net_income_change(res) == net_income_after(res) - net_income_before(res)

taxes == <<"income_tax", "state_income_tax", "employee_payroll_tax", "self_employment_tax">>

tax_liability_before(res) ==
    SumSeq([i \in DOMAIN taxes |-> changes_get(res, taxes[i]).before])

tax_liability_after_reads_before(res) ==
    SumSeq([i \in DOMAIN taxes |-> changes_get(res, taxes[i]).before])

tax_liability_after(res) ==
    SumSeq([i \in DOMAIN taxes |-> changes_get(res, taxes[i]).after])

tax_change(res) == tax_liability_after(res) - tax_liability_before(res)

benefit_vars ==
    <<"snap", "tanf", "ssi", "earned_income_tax_credit",
      "child_tax_credit", "refundable_ctc", "premium_tax_credit">>

\* ComparisonResult.new_benefits: zero before but positive after
new_benefits(res) ==
    SelectSeq(benefit_vars,
              LAMBDA var : /\ dict_has(res.changes, var)
                           /\ changes_get(res, var).before = 0
                           /\ changes_get(res, var).after > 0)

\* ComparisonResult.lost_benefits: positive before but zero after
lost_benefits(res) ==
    SelectSeq(benefit_vars,
              LAMBDA var : /\ dict_has(res.changes, var)
                           /\ changes_get(res, var).before > 0
                           /\ changes_get(res, var).after = 0)

AllEvents(hv) ==
    NewChildEvents \cup MarriageEvents \cup DivorceEvents(hv) \cup JobChangeEvents(hv)
    \cup UnemploymentEvents(hv) \cup RetirementEvents(hv) \cup PregnancyEvents(hv)
    \cup MedicareTransitionEvents(hv) \cup ChildAgingOutEvents(hv) \cup MoveEvents
    \cup LosingESIEvents

\* The variables argument: omitted, empty, or a list of the caller
VariableArgs ==
    {None, Some(<<>>), Some(<<"snap", "adjusted_gross_income", "income_tax">>)}

validation_error(e, errs) ==
    ValueError("Cannot apply " \o event_name(e) \o ": " \o Join("; ", errs))

CompareValidate_never_raises ==
    /\ pc = "call"
    /\ \E e \in AllEvents(household), vs \in VariableArgs :
          /\ event' = e
          /\ variables' = vs
          /\ errors' = validate(e, Load(household), 1)
          /\ effects' = Append(effects, "validate")
          /\ pc' = "validated" /\ raised' = raised
    /\ UNCHANGED <<household, input, nEvents, origin, before_situation, after_household,
                   after_situation, engine, before_results, after_results,
                   healthcare_before, healthcare_after, result, cov, object_vars>>

\* lines 496-499: validate, and raise if there are errors
CompareValidate ==
    /\ pc = "call"
    /\ \E e \in AllEvents(household), vs \in VariableArgs :
          LET errs == validate(e, Load(household), 1)
          IN  /\ event' = e
              /\ variables' = vs
              /\ errors' = errs
              /\ effects' = Append(effects, "validate")
              /\ IF errs # <<>>
                 THEN pc' = "raised" /\ raised' = validation_error(e, errs)
                 ELSE pc' = "validated" /\ raised' = raised
    /\ UNCHANGED <<household, input, nEvents, origin, before_situation, after_household,
                   after_situation, engine, before_results, after_results,
                   healthcare_before, healthcare_after, result, cov, object_vars>>

\* lines 501-504: before_situation, after_household, after_situation
CompareSituations ==
    /\ pc = "validated"
    /\ \E r \in {apply(event, Load(household), 1)} :
           /\ before_situation' = Some(to_situation(Load(household), 1))
           /\ household' = Deref(r.mem, 1)
           /\ IF r.raised # None
              THEN /\ pc' = "raised"
                   /\ raised' = r.raised
                   /\ effects' = effects \o <<"to_situation", "apply">>
                   /\ UNCHANGED <<after_household, after_situation>>
              ELSE /\ pc' = "situations"
                   /\ raised' = raised
                   /\ effects' = effects \o <<"to_situation", "apply", "to_situation">>
                   /\ after_household' = Some(Deref(r.mem, r.ref))
                   /\ after_situation' = Some(to_situation(r.mem, r.ref))
    /\ UNCHANGED <<event, input, nEvents, origin, variables, errors, engine,
                   before_results, after_results, healthcare_before, healthcare_after,
                   result, cov, object_vars>>

\* line 507: _run_simulation(before_situation, household.year)
CompareRunBefore ==
    /\ pc = "situations"
    /\ \E eng \in Engines :
          \E r \in {run_simulation(eng, "before", before_situation[1], household.year)} :
              /\ engine' = Some(eng)
              /\ effects' = Append(effects, "Simulation")
              /\ IF r.raised # None
                 THEN pc' = "raised" /\ raised' = r.raised /\ UNCHANGED before_results
                 ELSE pc' = "before_run" /\ raised' = raised
                      /\ before_results' = Some(r.results)
    /\ UNCHANGED <<household, event, input, nEvents, origin, variables, errors,
                   before_situation, after_household, after_situation, after_results,
                   healthcare_before, healthcare_after, result, cov, object_vars>>

\* line 508: _run_simulation(after_situation, after_household.year)
CompareRunAfter ==
    /\ pc = "before_run"
    /\ \E r \in {run_simulation(engine[1], "after", after_situation[1],
                                after_household[1].year)} :
           /\ effects' = Append(effects, "Simulation")
           /\ IF r.raised # None
              THEN pc' = "raised" /\ raised' = r.raised /\ UNCHANGED after_results
              ELSE pc' = "after_run" /\ raised' = raised
                   /\ after_results' = Some(r.results)
    /\ UNCHANGED <<household, event, input, nEvents, origin, variables, errors,
                   before_situation, after_household, after_situation, engine,
                   before_results, healthcare_before, healthcare_after, result, cov, object_vars>>

\* lines 510-512: coverage inference on both snapshots
CompareCoverage ==
    /\ pc = "after_run"
    /\ LET before_sim == [engine |-> engine[1], tag |-> "before",
                          situation |-> before_situation[1]]
           after_sim == [engine |-> engine[1], tag |-> "after",
                         situation |-> after_situation[1]]
           b == extract_healthcare_coverage(before_sim, Load(household), 1,
                                            household.year)
           a == extract_healthcare_coverage(after_sim, Load(after_household[1]), 1,
                                            after_household[1].year)
       IN  IF b.raised # None
           THEN /\ pc' = "raised" /\ raised' = b.raised
                /\ UNCHANGED <<healthcare_before, healthcare_after>>
           ELSE IF a.raised # None
           THEN /\ pc' = "raised" /\ raised' = a.raised
                /\ healthcare_before' = b.value
                /\ UNCHANGED healthcare_after
           ELSE /\ pc' = "covered" /\ raised' = raised
                /\ healthcare_before' = b.value
                /\ healthcare_after' = a.value
    /\ UNCHANGED <<household, event, input, nEvents, origin, variables, errors,
                   before_situation, after_household, after_situation, engine,
                   before_results, after_results, result, effects, cov, object_vars>>

\* lines 514-524: the loop that builds the changes dict
build_changes(todo, before, after) ==
    dict_from_items([i \in DOMAIN todo |->
        [key |-> todo[i],
         value |-> BenefitChange(todo[i], dict_get(before, todo[i], 0),
                                 dict_get(after, todo[i], 0))]])

vars_to_compare(vs) == IF vs = None \/ vs = Some(<<>>) THEN OUTPUT_VARIABLES ELSE vs[1]

\* lines 514-533: build the changes and return the ComparisonResult
CompareReturn ==
    /\ pc = "covered"
    /\ result' = Some([event |-> event,
                       before_situation |-> before_situation[1],
                       after_situation |-> after_situation[1],
                       changes |-> build_changes(vars_to_compare(variables),
                                       before_results[1], after_results[1]),
                       healthcare_before |-> healthcare_before,
                       healthcare_after |-> healthcare_after])
    /\ pc' = "returned"
    /\ UNCHANGED <<household, event, input, nEvents, origin, variables, errors, raised,
                   before_situation, after_household, after_situation, engine,
                   before_results, after_results, healthcare_before, healthcare_after,
                   effects, cov, object_vars>>

Init ==
    /\ \E o \in {"plain", "request", "flagged"} :
          /\ origin = o
          /\ household \in (CASE o = "plain" -> PlainHouseholds
                              [] o = "request" -> RequestHouseholds
                              [] o = "flagged" -> FlaggedHouseholds)
    /\ input = household
    /\ event = NoEvent
    /\ nEvents = 0
    /\ pc = "call"
    /\ IdleCompare
    /\ cov = None
    /\ NoObjects

Next ==
    \/ CompareValidate
    \/ CompareSituations
    \/ CompareRunBefore
    \/ CompareRunAfter
    \/ CompareCoverage
    \/ CompareReturn

Spec == Init /\ [][Next]_vars

----------------------------------------------------------------------------
(* Coverage inference on its own: _extract_healthcare_coverage applied to  *)
(* a constructed household and to any answers of the engine for medicaid,  *)
(* chip and premium_tax_credit.                                            *)

SeqsUpTo(S, n) == UNION {[1..k -> S] : k \in 0..n}

CoveragePersons ==
    {[Person(a) EXCEPT !.has_esi = esi] : a \in {10, 30}, esi \in BOOLEAN}

CoverageHouseholds ==
    {Deref(r.mem, r.ref) : r \in
        {Construct("CA", ms, None, None) :
            ms \in SeqsUpTo(CoveragePersons, MaxCoverageMembers) \ {<<>>}}}

PersonAnswers ==
    {Raise, Scalar(50)} \cup {Array(vs) : vs \in SeqsUpTo({0, 50}, MaxCoverageMembers)}

PtcAnswers == {Raise, Scalar(30), Array(<<0>>), Array(<<30>>)}

CoverageSim(c) ==
    [engine |-> [Engine({}, {}, {}, {}, "none") EXCEPT !.override =
                    [medicaid |-> c.medicaid, chip |-> c.chip,
                     premium_tax_credit |-> c.ptc]],
     tag |-> "before",
     situation |-> to_situation(Load(c.household), 1)]

InferCoverage ==
    /\ pc = "coverage"
    /\ cov # None /\ cov[1].out = None
    /\ cov' = Some([cov[1] EXCEPT !.out =
                  Some(extract_healthcare_coverage(CoverageSim(cov[1]),
                           Load(cov[1].household), 1, cov[1].household.year))])
    /\ UNCHANGED <<life_vars, compare_vars, object_vars>>

CoverageInit ==
    /\ \E h \in CoverageHouseholds, m \in PersonAnswers, c \in PersonAnswers,
          p \in PtcAnswers :
          /\ cov = Some([household |-> h, medicaid |-> m, chip |-> c, ptc |-> p,
                         out |-> None])
          /\ household = h
    /\ input = household
    /\ origin = "plain"
    /\ event = NoEvent
    /\ nEvents = 0
    /\ pc = "coverage"
    /\ IdleCompare
    /\ NoObjects

CoverageNext == InferCoverage

SpecCoverage == CoverageInit /\ [][CoverageNext]_vars

----------------------------------------------------------------------------
(* Household objects on their own: a caller constructs households, copies *)
(* them and changes the objects it holds.                                  *)

ConstructorMemberLists ==
    {<<>>, <<Person(30)>>, <<Person(10), Person(17)>>,
     <<Person(10), Person(30), Person(40), Person(63)>>,
     <<Person(30), [Person(40) EXCEPT !.is_tax_unit_head = TRUE]>>,
     <<[Person(30) EXCEPT !.is_tax_unit_spouse = TRUE], Person(40)>>}

DictData ==
    {[state |-> s, members |-> ms, year |-> None, county |-> c, zip_code |-> None] :
        s \in {None, Some("CA")},
        ms \in {None, Some(<<>>), Some(<<Person(30), Person(10)>>)},
        c \in {None, Some("Travis County")}}

Called(op, target, args, r, before) ==
    [op |-> op, target |-> target, args |-> args, raised |-> r.raised, ref |-> r.ref,
     out |-> IF r.raised = None THEN Some(Deref(r.mem, r.ref)) ELSE None,
     before |-> before]

Returned(r) == IF r.raised = None THEN r.mem ELSE heap

\* h = Household(state=, members=[...persons...])
HouseholdNew ==
    /\ pc = "objects" /\ Len(calls) < MaxCalls /\ Len(heap.H) < MaxObjects
    /\ \E state \in {"CA"}, members \in ConstructorMemberLists :
          \E r \in {NewHousehold([heap EXCEPT !.P = @ \o members], state,
                                 [i \in 1..Len(members) |-> Len(heap.P) + i],
                                 2024, None, None)} :
             /\ heap' = Returned(r)
             /\ calls' = Append(calls, Called("Household", 0, members, r, heap))
    /\ UNCHANGED <<life_vars, compare_vars, cov>>

\* h = Household.from_dict(data)
HouseholdFromDict ==
    /\ pc = "objects" /\ Len(calls) < MaxCalls /\ Len(heap.H) < MaxObjects
    /\ \E data \in DictData :
          \E r \in {from_dict(heap, data)} :
             /\ heap' = Returned(r)
             /\ calls' = Append(calls, Called("from_dict", 0, data, r, heap))
    /\ UNCHANGED <<life_vars, compare_vars, cov>>

\* c = h.copy()
HouseholdCopy ==
    /\ pc = "objects" /\ Len(calls) < MaxCalls /\ Len(heap.H) < MaxObjects
    /\ \E h \in DOMAIN heap.H :
          \E r \in {copy(heap, h)} :
             /\ heap' = Returned(r)
             /\ calls' = Append(calls, Called("copy", h, <<>>, r, heap))
    /\ UNCHANGED <<life_vars, compare_vars, cov>>

Changed(op, target, args, mem) ==
    [op |-> op, target |-> target, args |-> args, raised |-> None, ref |-> target,
     out |-> Some(Deref(mem, target)), before |-> heap]

\* h.members[i].<field> = v
SetPersonField ==
    /\ pc = "objects" /\ Len(calls) < MaxCalls
    /\ \E h \in DOMAIN heap.H :
          \E i \in DOMAIN heap.H[h].members,
             fv \in {<<"age", 50>>, <<"employment_income", 7>>, <<"is_pregnant", TRUE>>} :
             \E m \in {SetMember(heap, h, i - 1, fv[1], fv[2])} :
                /\ heap' = m
                /\ calls' = Append(calls, Changed("setattr", h, <<i - 1, fv[1], fv[2]>>, m))
    /\ UNCHANGED <<life_vars, compare_vars, cov>>

\* h.add_member(Person(age=...))
HouseholdAddMember ==
    /\ pc = "objects" /\ Len(calls) < MaxCalls
    /\ \E h \in DOMAIN heap.H, person \in {Person(5), Person(35)} :
          \E m \in {add_member([heap EXCEPT !.P = Append(@, person)], h,
                               Len(heap.P) + 1)} :
             /\ heap' = m
             /\ calls' = Append(calls, Changed("add_member", h, person, m))
    /\ UNCHANGED <<life_vars, compare_vars, cov>>

\* h.members.pop(i)
MembersPop ==
    /\ pc = "objects" /\ Len(calls) < MaxCalls
    /\ \E h \in DOMAIN heap.H :
          \E i \in DOMAIN heap.H[h].members :
             \E m \in {[heap EXCEPT !.H[h].members = pop(@, i - 1)]} :
                /\ heap' = m
                /\ calls' = Append(calls, Changed("pop", h, i - 1, m))
    /\ UNCHANGED <<life_vars, compare_vars, cov>>

\* h.state = s
SetState ==
    /\ pc = "objects" /\ Len(calls) < MaxCalls
    /\ \E h \in DOMAIN heap.H, s \in {"TX"} :
          \E m \in {[heap EXCEPT !.H[h].state = s]} :
             /\ heap' = m
             /\ calls' = Append(calls, Changed("setstate", h, s, m))
    /\ UNCHANGED <<life_vars, compare_vars, cov>>

ObjectsInit ==
    /\ household \in {hv \in PlainHouseholds : hv.state = "TX"}
    /\ input = household
    /\ origin = "plain"
    /\ event = NoEvent
    /\ nEvents = 0
    /\ pc = "objects"
    /\ IdleCompare
    /\ cov = None
    /\ heap = EmptyMemory
    /\ calls = <<>>

ObjectsNext ==
    \/ HouseholdNew
    \/ HouseholdFromDict
    \/ HouseholdCopy
    \/ SetPersonField
    \/ HouseholdAddMember
    \/ MembersPop
    \/ SetState

SpecObjects == ObjectsInit /\ [][ObjectsNext]_vars

----------------------------------------------------------------------------
(* api.py: create_event_from_request, the event-construction boundary *)

\* The dataclass fields of each event class with their defaults (a required
\* field is listed in RequiredFields and its entry here is never read)
EventDefaults(cls) ==
    CASE cls = "NewChild" -> [age |-> 0]
      [] cls = "Move" -> [new_state |-> ""]
      [] cls = "Marriage" ->
            [spouse_age |-> 30, spouse_employment_income |-> 0,
             spouse_self_employment_income |-> 0, spouse_children |-> <<>>]
      [] cls = "JobChange" ->
            [member_index |-> 0, new_employment_income |-> None, income_change |-> None]
      [] cls = "Retirement" ->
            [member_index |-> 0, social_security_amount |-> 0,
             keep_partial_employment |-> FALSE, partial_employment_income |-> 0]
      [] cls = "Divorce" -> [children_leave_with_spouse |-> None]
      [] cls = "Pregnancy" -> [member_index |-> 0]
      [] cls = "Unemployment" ->
            [member_index |-> 0, unemployment_compensation |-> 0, severance_pay |-> None]
      [] cls = "MedicareTransition" -> [member_index |-> 0]
      [] cls = "ChildAgingOut" -> [member_index |-> 0, aging_out_type |-> 18]
      [] cls = "LosingESI" -> [who |-> "head"]

RequiredFields(cls) ==
    CASE cls = "Move" -> {"new_state"}
      [] cls = "ChildAgingOut" -> {"member_index"}
      [] OTHER -> {}

ArgumentError(msg) == Some([type |-> "TypeError", message |-> msg])

\* cls(**kwargs) for a dataclass: [raised, value]
NewEvent(cls, kwargs) ==
    LET fields == EventDefaults(cls)
    IN  IF ~(DOMAIN kwargs \subseteq DOMAIN fields)
        THEN [raised |-> ArgumentError("unexpected keyword argument"), value |-> None]
        ELSE IF ~(RequiredFields(cls) \subseteq DOMAIN kwargs)
        THEN [raised |-> ArgumentError("missing required positional argument"),
              value |-> None]
        ELSE [raised |-> None,
              value |-> Some([f \in DOMAIN fields \cup {"type"} |->
                                IF f = "type" THEN cls
                                ELSE IF f \in DOMAIN kwargs THEN kwargs[f]
                                ELSE fields[f]])]

NoArguments == [f \in {} |-> None]

\* The entries of event_map, called
event_map(event_type, params, hv) ==
    CASE event_type = "having_baby" -> NewEvent("NewChild", NoArguments)
      [] event_type = "moving_states" ->
            NewEvent("Move", [new_state |-> Get(params.newState, "TX")])
      [] event_type = "getting_married" ->
            NewEvent("Marriage",
                     [spouse_age |-> Get(params.spouseAge, 30),
                      spouse_employment_income |-> Get(params.spouseIncome, 0)])
      [] event_type = "changing_income" ->
            NewEvent("JobChange",
                     [new_income |-> (hv.members[1].employment_income
                                      * (100 + Get(params.percentChange, 20))) \div 100])
      [] event_type = "retiring" -> NewEvent("Retirement", NoArguments)
      [] event_type = "divorce" -> NewEvent("Divorce", NoArguments)
      [] event_type = "pregnancy" -> NewEvent("Pregnancy", NoArguments)
      [] event_type = "unemployment" ->
            NewEvent("Unemployment",
                     [unemployment_compensation |->
                         Get(params.unemploymentBenefits, 15000)])
      [] event_type = "medicare_transition" -> NewEvent("MedicareTransition", NoArguments)
      [] event_type = "child_aging_out" -> NewEvent("ChildAgingOut", NoArguments)
      [] event_type = "losing_esi" -> NewEvent("LosingESI", NoArguments)

EventMapKeys ==
    {"having_baby", "moving_states", "getting_married", "changing_income", "retiring",
     "divorce", "pregnancy", "unemployment", "medicare_transition", "child_aging_out",
     "losing_esi"}

create_event_from_request(event_type, params, hv) ==
    IF event_type \notin EventMapKeys
    THEN [raised |-> ValueError("Unknown event type: " \o event_type), value |-> None]
    ELSE event_map(event_type, params, hv)

EventTypeStrings == EventMapKeys \cup {"new_child", "Divorce", ""}

Params(newState, spouseAge, spouseIncome, percentChange, unemploymentBenefits) ==
    [newState |-> newState, spouseAge |-> spouseAge, spouseIncome |-> spouseIncome,
     percentChange |-> percentChange, unemploymentBenefits |-> unemploymentBenefits]

ParamsData ==
    {Params(None, None, None, None, None),
     Params(Some("CA"), Some(17), Some(100), Some(-50), Some(20)),
     Params(Some("ZZ"), None, Some(-5), Some(0), None)}

ApiCreateEvent ==
    /\ pc = "api" /\ calls = <<>>
    /\ \E event_type \in EventTypeStrings, params \in ParamsData :
          \E r \in {create_event_from_request(event_type, params, household)} :
             calls' = <<[op |-> "create_event_from_request", event_type |-> event_type,
                         params |-> params, raised |-> r.raised, out |-> r.value]>>
    /\ UNCHANGED <<life_vars, compare_vars, cov, heap>>

ApiInit ==
    /\ household \in RequestHouseholds
    /\ input = household
    /\ origin = "request"
    /\ event = NoEvent
    /\ nEvents = 0
    /\ pc = "api"
    /\ IdleCompare
    /\ cov = None
    /\ NoObjects

ApiNext == ApiCreateEvent

SpecApi == ApiInit /\ [][ApiNext]_vars

----------------------------------------------------------------------------
(* Properties *)

NoEngineWork ==
    /\ before_situation = None /\ after_household = None /\ after_situation = None
    /\ engine = None /\ before_results = None /\ after_results = None
    /\ healthcare_before = None /\ healthcare_after = None

\* C1: if event.validate(household) returns at least one error, compare
\* raises a ValueError carrying the joined messages, having done nothing but
\* validate: apply was not called, no situation was serialized, no engine
\* instance was created or queried, the household passed in is unchanged and
\* no result is returned.
C1_ValidationFailureRaisesFirst ==
    errors # <<>> =>
        /\ pc = "raised"
        /\ errors = validate(event, Load(input), 1)
        /\ raised # None
        /\ raised[1].type = "ValueError"
        /\ raised[1].message =
              "Cannot apply " \o event_name(event) \o ": " \o Join("; ", errors)
        /\ effects = <<"validate">>
        /\ household = input
        /\ NoEngineWork
        /\ result = None

C1_Witness ==
    /\ pc = "raised"
    /\ event.type = "Divorce"
    /\ errors = <<"Household has no spouse to divorce">>
    /\ raised = ValueError("Cannot apply Divorce: Household has no spouse to divorce")

\* C2: apply leaves its input household unchanged: observed after apply has
\* returned, the input has the member sequence, the field values of every
\* member, the state, year, county and ZIP it had before the call.
C2_ApplyLeavesInputUnchanged == [][input' = household]_vars

C2_Witness ==
    /\ nEvents > 0
    /\ raised = None
    /\ event.type = "JobChange"
    /\ household # input
    /\ \E i \in DOMAIN household.members :
          household.members[i].employment_income # input.members[i].employment_income

\* C3: once validation has passed, no failure of the engine escapes compare:
\* a call whose validate returned no error never ends by raising.
C3_EngineFailuresNeverEscape == (pc = "raised") => errors # <<>>

RoleInvariant(hv) ==
    (\E i \in DOMAIN hv.members : hv.members[i].age >= 18)
    => (\E i \in DOMAIN hv.members : hv.members[i].is_tax_unit_head)

\* C4: whenever compare serializes a household, the original or the one
\* returned by apply, that household has a tax-unit head if it has a member
\* aged 18 or more.
C4_RoleInvariantWhenSerialized ==
    /\ before_situation # None => RoleInvariant(household)
    /\ after_situation # None => RoleInvariant(after_household[1])

Heads(hv) == {i \in DOMAIN hv.members : hv.members[i].is_tax_unit_head}

Spouses(hv) == {i \in DOMAIN hv.members : hv.members[i].is_tax_unit_spouse}

\* C5: every household reached from one constructed without role flags or
\* built by create_household_from_request, through validated life events,
\* has at most one member marked head and at most one marked spouse.
C5_AtMostOneHeadAndSpouse ==
    origin \in {"plain", "request"} =>
        /\ Cardinality(Heads(household)) <= 1
        /\ Cardinality(Spouses(household)) <= 1

\* The preconditions of an event on its own parameters (section 4.2), each
\* with the message that names it
ViolatedParameterRules(e) ==
    CASE e.type = "Unemployment" ->
            IF e.unemployment_compensation < 0
            THEN {"Unemployment compensation cannot be negative"} ELSE {}
      [] e.type = "Retirement" ->
            (IF e.social_security_amount < 0
             THEN {"Social Security amount cannot be negative"} ELSE {})
            \cup (IF e.keep_partial_employment /\ e.partial_employment_income < 0
                  THEN {"Partial employment income cannot be negative"} ELSE {})
      [] e.type = "JobChange" ->
            IF e.new_employment_income # None /\ e.new_employment_income[1] < 0
            THEN {"New employment income cannot be negative"} ELSE {}
      [] OTHER -> {}

\* C6: the validation error carries every violated rule: a precondition on
\* the event's own parameters that is violated is named in the error also
\* when the member_index is out of range.
C6_AllViolatedRulesCarried ==
    pc = "raised" /\ errors # <<>> => ViolatedParameterRules(event) \subseteq Range(errors)

\* What the engine gives for a variable on a situation, as one number
EngineGives(eng, tag, situation, var, year) ==
    LET answer == calculate([engine |-> eng, tag |-> tag, situation |-> situation],
                            var, year)
    IN  CASE answer.kind = "raise" -> 0
          [] answer.kind = "array" -> SumSeq(answer.values)
          [] answer.kind = "scalar" -> answer.value

\* C7: with a caller-supplied non-empty variables list the changes map has
\* the variables of the list as keys, in list order, and every one of them
\* has the engine's values on the before and after situations.
C7_CallerVariablesGetEngineValues ==
    pc = "returned" /\ variables # None /\ variables # Some(<<>>) =>
        LET changes == result[1].changes
        IN  /\ dict_keys(changes) = variables[1]
            /\ \A i \in DOMAIN changes :
                  /\ changes[i].value.before =
                        EngineGives(engine[1], "before", before_situation[1],
                                    changes[i].key, household.year)
                  /\ changes[i].value.after =
                        EngineGives(engine[1], "after", after_situation[1],
                                    changes[i].key, after_household[1].year)

WithFailure(eng, tag, var) == [eng EXCEPT !.fails[tag] = @ \cup {var}]

RecordedFromEngine(results, eng, tag, situation, year) ==
    /\ dict_keys(results) = OUTPUT_VARIABLES
    /\ \A i \in DOMAIN results :
          results[i].value = EngineGives(eng, tag, situation, results[i].key, year)

\* C8: with the default tracked list, the value recorded by each simulation
\* run for a variable is the engine's answer on that situation (a scalar as
\* it is, an array summed, 0 if the engine fails for it); making the engine
\* fail for one variable leaves the values recorded for the others as they
\* are; and the changes map returned has one entry per tracked variable, in
\* list order, holding the values the two runs recorded.
C8_DefaultVariablesRecorded ==
    /\ pc = "before_run" =>
          /\ RecordedFromEngine(before_results[1], engine[1], "before",
                                before_situation[1], household.year)
          /\ \A v \in {"snap", "employment_income"} :
                LET r == run_simulation(WithFailure(engine[1], "before", v), "before",
                                        before_situation[1], household.year).results
                IN  \A i \in DOMAIN r :
                       r[i].key # v => r[i] = before_results[1][i]
    /\ pc = "after_run" =>
          RecordedFromEngine(after_results[1], engine[1], "after",
                             after_situation[1], after_household[1].year)
    /\ pc = "returned" /\ (variables = None \/ variables = Some(<<>>)) =>
          LET changes == result[1].changes
          IN  /\ dict_keys(changes) = OUTPUT_VARIABLES
              /\ \A i \in DOMAIN changes :
                    changes[i].value =
                       BenefitChange(OUTPUT_VARIABLES[i], before_results[1][i].value,
                                     after_results[1][i].value)

C8_Witness ==
    /\ pc = "returned"
    /\ variables = None
    /\ "snap" \in engine[1].fails.before
    /\ dict_get(result[1].changes, "snap", None).before = 0
    /\ dict_get(result[1].changes, "snap", None).after > 0
    /\ dict_get(result[1].changes, "employment_income", None).before = 200
    /\ Len(before_situation[1].people) = 2

AnswerAmount(answer, k) ==
    IF answer.kind = "array" /\ k <= Len(answer.values) THEN answer.values[k] ELSE 0

AnswerTotal(answer) == IF answer.kind = "array" THEN SumSeq(answer.values) ELSE 0

ExpectedCoverage(c, k) ==
    IF c.household.members[k].has_esi THEN Some("ESI")
    ELSE IF AnswerAmount(c.medicaid, k) > 0 THEN Some("Medicaid")
    ELSE IF AnswerAmount(c.chip, k) > 0 THEN Some("CHIP")
    ELSE IF AnswerTotal(c.ptc) > 0 THEN Some("Marketplace")
    ELSE None

SummaryList(hc, k) ==
    IF k \in DOMAIN get_coverage_summary(hc) THEN get_coverage_summary(hc)[k] ELSE <<>>

Inferred(c) == c.out # None /\ c.out[1].raised = None

C10_CoverageFlagsExclusive ==
    cov # None /\ Inferred(cov[1]) =>
        \A k \in DOMAIN cov[1].out[1].value[1].people :
           LET q == cov[1].out[1].value[1].people[k]
           IN  Cardinality({f \in {"esi", "medicaid", "chip", "marketplace"} : q[f]}) <= 1

\* C11: JobChange.validate accepts an event only if exactly one of
\* new_employment_income and income_change is provided: a JobChange that
\* validate has accepted does not have neither and does not have both.
C11_JobChangeExactlyOneParameter ==
    pc # "call" /\ event.type = "JobChange" /\ errors = <<>> =>
        (event.new_employment_income = None) # (event.income_change = None)

\* C12: LosingESI.validate reports an error whenever who is spouse or both
\* and no member of the household is marked spouse, and reports no error when
\* who is head.
C12_LosingESINeedsSpouse ==
    pc # "call" /\ event.type = "LosingESI" =>
        /\ event.who \in {"spouse", "both"} /\ Spouses(input) = {} => errors # <<>>
        /\ event.who = "head" => errors = <<>>

\* The members of ms whose 0-based index is not in removed, in order
Without(ms, removed) ==
    LET idx == SelectSeq([i \in 1..Len(ms) |-> i], LAMBDA i : (i - 1) \notin removed)
    IN  [k \in DOMAIN idx |-> ms[idx[k]]]

ListedChildren(e) ==
    IF e.children_leave_with_spouse = None THEN {}
    ELSE Range(e.children_leave_with_spouse[1])

\* C13: for a Divorce that passed validate, the members of the result are the
\* members of the input without a spouse and without every member whose index
\* is listed in children_leave_with_spouse, the others kept in order with
\* unchanged field values; the result has 1 + (number of distinct listed
\* indices) fewer members, and the removed member that was not listed was
\* marked spouse in the input.
C13_DivorceRemovesSpouseAndListed ==
    nEvents > 0 /\ event.type = "Divorce" /\ raised = None =>
        /\ \E sp \in Spouses(input) :
              household.members = Without(input.members, {sp - 1} \cup ListedChildren(event))
        /\ Len(household.members) =
              Len(input.members) - (1 + Cardinality(ListedChildren(event)))

LastCall == calls[Len(calls)]

\* C14: Household.copy() returns a household that shares no Person with the
\* original and has the same state, year, county and ZIP; and a later change
\* of a member's field, of the membership or of the state of one household
\* object leaves every other household object, the original or the copy,
\* as it was.
C14_CopyIsIndependent ==
    [][calls' # calls =>
         LET c == calls'[Len(calls')]
         IN  /\ c.op = "copy" /\ c.raised = None =>
                  /\ Range(Members(heap', c.ref)) \cap Range(Members(heap', c.target)) = {}
                  /\ \A f \in {"state", "year", "county", "zip_code"} :
                        heap'.H[c.ref][f] = heap.H[c.target][f]
             /\ c.op \in {"setattr", "add_member", "pop", "setstate"} =>
                  \A k \in DOMAIN heap.H \ {c.target} : Deref(heap', k) = Deref(heap, k)
    ]_vars

C14_Witness ==
    /\ Len(calls) = 3
    /\ calls[2].op = "copy" /\ calls[2].raised = None
    /\ calls[3].op = "setattr" /\ calls[3].target = calls[2].ref
    /\ calls[3].args = <<0, "age", 50>>
    /\ MemberAt(heap, calls[2].ref, 1).age = 50
    /\ MemberAt(heap, calls[2].target, 1).age = 30

AdultIndices(ms) == SelectSeq([i \in 1..Len(ms) |-> i], LAMBDA i : ms[i].age >= 18)

Unflagged(ms) ==
    \A i \in DOMAIN ms : ~ms[i].is_tax_unit_head /\ ~ms[i].is_tax_unit_spouse

GivenMembers(c) == IF c.op = "from_dict" THEN Get(c.args.members, <<>>) ELSE c.args

\* C15: a Household constructed with at least two members none of which
\* carries a head or spouse flag has, after construction, the first member
\* aged 18 or more as head, the second member aged 18 or more, if any, as
\* spouse, and no other member with a head or spouse flag.
C15_ConstructorAssignsRoles ==
    \A n \in DOMAIN calls :
       LET c == calls[n]
       IN  /\ c.op \in {"Household", "from_dict"} /\ c.raised = None
           /\ Len(GivenMembers(c)) >= 2 /\ Unflagged(GivenMembers(c))
           => LET ms == c.out[1].members
                  ad == AdultIndices(ms)
              IN  /\ Len(ms) = Len(GivenMembers(c))
                  /\ \A i \in DOMAIN ms :
                        /\ ms[i].is_tax_unit_head <=> (Len(ad) >= 1 /\ i = ad[1])
                        /\ ms[i].is_tax_unit_spouse <=> (Len(ad) >= 2 /\ i = ad[2])

C15_Witness ==
    /\ calls # <<>>
    /\ LastCall.op = "Household" /\ LastCall.raised = None
    /\ LastCall.args = <<Person(10), Person(30), Person(40), Person(63)>>
    /\ LastCall.out[1].members[2].is_tax_unit_head
    /\ LastCall.out[1].members[3].is_tax_unit_spouse
    /\ ~LastCall.out[1].members[4].is_tax_unit_spouse

\* C20: constructing a Household with zero members, directly or through
\* from_dict with a missing or empty members list, fails with an error (the
\* ValueError of the constructor whenever the constructor is reached) and
\* yields no household.
C20_EmptyHouseholdRejected ==
    calls # <<>> /\ LastCall.op \in {"Household", "from_dict"}
    /\ GivenMembers(LastCall) = <<>> =>
        /\ LastCall.raised # None
        /\ LastCall.op = "Household" \/ LastCall.args.state # None =>
              LastCall.raised = ValueError("Household must have at least one member")
        /\ LastCall.out = None
        /\ heap.H = LastCall.before.H

C20_Witness ==
    /\ calls # <<>>
    /\ LastCall.op = "from_dict"
    /\ LastCall.args.members = None /\ LastCall.args.state = Some("CA")
    /\ LastCall.raised = ValueError("Household must have at least one member")

\* The catalog variant named by each supported event-type string
CatalogVariant ==
    [having_baby |-> "NewChild", getting_married |-> "Marriage", divorce |-> "Divorce",
     changing_income |-> "JobChange", unemployment |-> "Unemployment",
     retiring |-> "Retirement", pregnancy |-> "Pregnancy",
     medicare_transition |-> "MedicareTransition", child_aging_out |-> "ChildAgingOut",
     moving_states |-> "Move", losing_esi |-> "LosingESI"]

\* C16: create_event_from_request returns an event of the matching catalog
\* variant for every supported event-type string, and fails with the
\* unknown-event-type error for every other string and only for those.
C16_EventBoundaryBuildsEveryVariant ==
    calls # <<>> /\ LastCall.op = "create_event_from_request" =>
        IF LastCall.event_type \in DOMAIN CatalogVariant
        THEN /\ LastCall.raised = None
             /\ LastCall.out # None
             /\ LastCall.out[1].type = CatalogVariant[LastCall.event_type]
        ELSE LastCall.raised = ValueError("Unknown event type: " \o LastCall.event_type)

NonNegativeMember(m) ==
    /\ m.age >= 0
    /\ m.employment_income >= 0
    /\ m.self_employment_income >= 0
    /\ m.social_security_retirement >= 0
    /\ m.unemployment_compensation >= 0

\* C17: starting from a household whose members all have age >= 0 and
\* non-negative employment_income, self_employment_income,
\* social_security_retirement and unemployment_compensation, after any
\* sequence of life events that each passed validate every member of the
\* resulting household still has age >= 0 and the four amounts non-negative.
C17_AmountsStayNonNegative ==
    \A i \in DOMAIN household.members : NonNegativeMember(household.members[i])

Entries(changes, names) == SelectSeq(changes, LAMBDA kv : kv.key \in names)

TaxNames == {"income_tax", "state_income_tax", "employee_payroll_tax", "self_employment_tax"}

\* C18: the aggregates of a ComparisonResult are functions of its changes
\* map: net income before/after is the before/after of the
\* household_net_income entry, 0 when the entry is absent; tax liability
\* before/after is the sum of the before/after of the tax entries that are
\* present; net_income_change and tax_change equal after minus before.
C18_AggregatesFromChanges ==
    pc = "returned" =>
        LET res == result[1]
            net == Entries(res.changes, {"household_net_income"})
            tax == Entries(res.changes, TaxNames)
        IN  /\ net_income_before(res) = IF net = <<>> THEN 0 ELSE net[1].value.before
            /\ net_income_after(res) = IF net = <<>> THEN 0 ELSE net[1].value.after
            /\ tax_liability_before(res) = SumSeq([i \in DOMAIN tax |-> tax[i].value.before])
            /\ tax_liability_after(res) = SumSeq([i \in DOMAIN tax |-> tax[i].value.after])
            /\ net_income_change(res) = net_income_after(res) - net_income_before(res)
            /\ tax_change(res) = tax_liability_after(res) - tax_liability_before(res)

C18_Witness ==
    /\ pc = "returned"
    /\ variables = Some(<<"snap", "adjusted_gross_income", "income_tax">>)
    /\ net_income_before(result[1]) = 0 /\ net_income_change(result[1]) = 0
    /\ tax_liability_before(result[1]) > 0
    /\ tax_change(result[1]) > 0
    /\ tax_liability_after(result[1]) = dict_get(after_results[1], "income_tax", 0)

\* C19: for every BenefitChange, change equals after minus before;
\* percent_change has no value exactly when before equals 0, and when before
\* is not 0 it is (after - before) / before * 100.
C19_PercentChangeDefinedIffBeforeNonZero ==
    pc = "returned" =>
        \A i \in DOMAIN result[1].changes :
           LET bc == result[1].changes[i].value
           IN  /\ change(bc) + bc.before = bc.after
               /\ percent_change(bc) = None <=> bc.before = 0
               /\ bc.before # 0 =>
                     percent_change(bc)[1].num * bc.before
                        = (bc.after - bc.before) * 100 * percent_change(bc)[1].den

C19_Witness ==
    /\ pc = "returned"
    /\ \E i, j \in DOMAIN result[1].changes :
          LET a == result[1].changes[i].value
              b == result[1].changes[j].value
          IN  /\ a.before = 0 /\ a.after > 0 /\ percent_change(a) = None
              /\ b.before > 0 /\ b.after = 0
              /\ percent_change(b) = Some([num |-> -100 * b.before, den |-> b.before])

Applied(types) == nEvents > 0 /\ raised = None /\ event.type \in types

SameButRoles(p, q) ==
    [p EXCEPT !.is_tax_unit_head = FALSE, !.is_tax_unit_spouse = FALSE]
    = [q EXCEPT !.is_tax_unit_head = FALSE, !.is_tax_unit_spouse = FALSE]

\* C21: for a NewChild or Marriage that passed validate, the result's members
\* are the input's members in order followed by the new ones: NewChild
\* appends one person with the given age, zero incomes and neither head nor
\* spouse flag; Marriage appends one person with the given age and incomes
\* who is marked spouse and not marked head, then each spouse_children person
\* in order.
C21_NewMembersAppended ==
    Applied({"NewChild", "Marriage"}) =>
        LET old == input.members
            new == household.members
            n == Len(old)
        IN  /\ Len(new) = n + (IF event.type = "NewChild" THEN 1
                               ELSE 1 + Len(event.spouse_children))
            /\ \A i \in DOMAIN old : SameButRoles(new[i], old[i])
            /\ event.type = "NewChild" => new[n + 1] = Person(event.age)
            /\ event.type = "Marriage" =>
                  /\ new[n + 1] =
                        [Person(event.spouse_age) EXCEPT
                            !.employment_income = event.spouse_employment_income,
                            !.self_employment_income = event.spouse_self_employment_income,
                            !.is_tax_unit_spouse = TRUE]
                  /\ \A k \in DOMAIN event.spouse_children :
                        SameButRoles(new[n + 1 + k], event.spouse_children[k])

MemberFieldsOf(e) ==
    CASE e.type = "JobChange" -> {"employment_income"}
      [] e.type = "Unemployment" -> {"employment_income", "unemployment_compensation"}
      [] e.type = "Retirement" -> {"employment_income", "social_security_retirement"}
      [] e.type = "Pregnancy" -> {"is_pregnant"}
      [] e.type = "MedicareTransition" -> {"age"}
      [] e.type = "ChildAgingOut" -> {"age"}
      [] OTHER -> {}

\* C22: for an event that does not change membership and passed validate,
\* the result differs from the input only in the fields the event targets:
\* the targeted member's field(s), or the household's state for Move, nothing
\* for LosingESI; in particular no head or spouse flag differs.
C22_OnlyTargetedFieldsChange ==
    Applied({"JobChange", "Unemployment", "Retirement", "Pregnancy", "MedicareTransition",
             "ChildAgingOut", "Move", "LosingESI"}) =>
        /\ Len(household.members) = Len(input.members)
        /\ \A i \in DOMAIN input.members :
              \A f \in DOMAIN input.members[i] :
                 household.members[i][f] # input.members[i][f] =>
                    /\ f \in MemberFieldsOf(event)
                    /\ i = event.member_index + 1
        /\ \A f \in {"state", "year", "county", "zip_code"} :
              household[f] # input[f] => event.type = "Move" /\ f = "state"

\* C24: every household reached from a constructed household through
\* validated life events has at least one member.
C24_HouseholdNeverEmpty == household.members # <<>>

\* C25: in a household constructed without role flags and in every household
\* reached from it by validated life events, no member is marked both
\* tax-unit head and tax-unit spouse.
C25_NoMemberHeadAndSpouse ==
    origin \in {"plain", "request"} => Heads(household) \cap Spouses(household) = {}

\* C26: a Divorce that passed validate never removes the tax-unit head: every
\* member marked head in the input is still a member, still marked head, of
\* the result.
C26_DivorceKeepsHead ==
    Applied({"Divorce"}) =>
        \A i \in Heads(input) :
           \E j \in Heads(household) : household.members[j] = input.members[i]

RoleFlags == {"is_tax_unit_head", "is_tax_unit_spouse", "is_tax_unit_dependent"}

\* C27: in the situation to_situation produces for any reachable household,
\* each person entry carries exactly one of the three role flags, and the
\* people, tax-unit, family, SPM-unit and household groupings list the same
\* identifiers person_0 .. person_{n-1} in member order.
C27_SituationRolesAndGroups ==
    LET sit == to_situation(Load(household), 1)
        ids == [i \in DOMAIN household.members |-> person_id(i - 1)]
    IN  /\ \A i \in DOMAIN sit.people :
              Cardinality(sit.people[i].data.flags \cap RoleFlags) = 1
        /\ [i \in DOMAIN sit.people |-> sit.people[i].id] = ids
        /\ sit.tax_units.tax_unit.members = ids
        /\ sit.families.family.members = ids
        /\ sit.spm_units.spm_unit.members = ids
        /\ sit.households.household.members = ids

PlainDivorce == [type |-> "Divorce", children_leave_with_spouse |-> None]

MarriedAlone == Applied({"Marriage"}) /\ event.spouse_children = <<>>

\* C28: Marriage followed by Divorce is a round trip: after a validated
\* Marriage without spouse_children on h, Divorce() passes validate, and
\* applying it yields a household equal to h in members, member field values,
\* state, year, county and ZIP.
C28_MarriageDivorceRoundTrip ==
    [][MarriedAlone =>
          /\ validate(PlainDivorce, Load(household), 1) = <<>>
          /\ event' = PlainDivorce /\ nEvents' = nEvents + 1 /\ raised' = None
             => household' = input
    ]_vars

\* C29: one-shot events cannot be repeated: after a validated Marriage,
\* Divorce, Pregnancy, MedicareTransition, Move, Unemployment or
\* ChildAgingOut e has been applied, the same e fails validate on the result.
C29_OneShotEventsNotRepeatable ==
    Applied({"Marriage", "Divorce", "Pregnancy", "MedicareTransition", "Move",
             "Unemployment", "ChildAgingOut"}) =>
        validate(event, Load(household), 1) # <<>>

\* C23: role assignment, at construction and in add_member, marks a spouse
\* whenever a second adult exists: after a constructor, from_dict or
\* add_member call that returned, a household with two or more adults has a
\* member marked spouse, whether the head was assigned automatically or was
\* already marked by the caller.
C23_SecondAdultGetsSpouse ==
    pc = "objects" =>
        \A k \in DOMAIN calls :
           LET c == calls[k]
           IN  c.op \in {"Household", "from_dict", "add_member"} /\ c.raised = None =>
                  (Len(AdultIndices(c.out[1].members)) >= 2 => Spouses(c.out[1]) # {})

\* C30: every variable new_benefits and lost_benefits look at is tracked by
\* default: in a result compare returns for the default variable list each
\* watched name is a key of changes, new_benefits holds exactly the watched
\* names that went from 0 to positive and lost_benefits those that went from
\* positive to 0; the two lists are disjoint and hold only keys of changes.
C30_WatchedBenefitsTracked ==
    pc = "returned" /\ variables \in {None, Some(<<>>)} =>
        LET res == result[1]
            new == Range(new_benefits(res))
            lost == Range(lost_benefits(res))
        IN  /\ \A var \in Range(benefit_vars) :
                  /\ dict_has(res.changes, var)
                  /\ var \in new <=> changes_get(res, var).before = 0
                                     /\ changes_get(res, var).after > 0
                  /\ var \in lost <=> changes_get(res, var).before > 0
                                      /\ changes_get(res, var).after = 0
            /\ new \cap lost = {}
            /\ new \cup lost \subseteq Range(dict_keys(res.changes))

====
